---- MODULE Spec2Model ----
(***************************************************************************)
(* Model of openhands/runtime/browser/browser_env.py: the BrowserEnv       *)
(* supervisor (__init__, init_browser, step, check_alive, close) and the   *)
(* worker loop (browser_process), which talk over one multiprocessing.Pipe.*)
(*                                                                         *)
(* Time is counted in poll intervals (0.01 s) and only where the code      *)
(* measures it (the elapsed time of step); the other bounded waits (poll   *)
(* with a timeout, join(5)) either see their event or time out. Under      *)
(* SpecSignal the time these waits go on after should_exit() has become    *)
(* true is counted as well.                                                *)
(***************************************************************************)
EXTENDS Integers, Sequences, FiniteSets, TLC

\* ---------------------------------------------------------------- bounds
MaxOps == 3          \* operations invoked on the object, one thread
MaxConcOps == 2      \* operations invoked on the object, two threads
MaxStartOps == 1     \* operations invoked after a start with retries
MaxTimeout == 1      \* largest timeout passed to step, in poll intervals
MaxBootFail == 1     \* failed environment constructions before operations
MaxTwoOps == 2       \* operations invoked when two threads call step
MaxWaitOps == 1      \* operations invoked when the time of every wait is counted
MaxEvalOps == 2      \* operations invoked when the evaluation actions are used
MaxLate == 2         \* poll intervals counted in a wait after should_exit() holds

\* ------------------------------------------------------ program constants
MaxAttempts == 5     \* tenacity.stop_after_attempt(5)

\* the bounded waits other than the poll of step, in poll intervals of
\* 0.01 s: check_alive(timeout=200) of init_browser, check_alive() with
\* its default timeout of 60 s, process.join(5)
ProbeIntervals == 20000
PingIntervals == 6000
JoinIntervals == 500

BROWSER_EVAL_GET_GOAL_ACTION == "GET_EVAL_GOAL"
BROWSER_EVAL_GET_REWARDS_ACTION == "GET_EVAL_REWARDS"

Threads == {"main", "aux"}
ActionStrs == {"noop", BROWSER_EVAL_GET_GOAL_ACTION}
Timeouts == 0..MaxTimeout

\* str(uuid.uuid4()): a fresh string for every call
Uuid(n) == <<"u1", "u2", "u3", "u4", "u5", "u6">>[n]

\* an envelope (id, payload). done = FALSE while its writer has written
\* only a part of it (Connection.send of an observation that is larger
\* than the pipe buffer): poll() already reports it, recv() blocks on it
Envelope(i, p) == [id |-> i, pl |-> p, done |-> TRUE]

NoReq == [id |-> "none", pl |-> "none"]
NoRes == [op |-> "none", kind |-> "none", id |-> "none", pl |-> "none", skip |-> 0]
Res(o, k, i, p) == [op |-> o, kind |-> k, id |-> i, pl |-> p]

VARIABLES
  avail,        \* BROWSERGYM_AVAILABLE
  eval_env,     \* bool(browsergym_eval_env), the argument of the constructor
  proc,         \* self.process: "undef", "unstarted", "alive", "dead"
  wpc,          \* worker: "none", "boot", "loop", "stepping", "sending", "exited"
  wreq,         \* the request the worker is processing
  envCloses,    \* env.close() calls made by the worker process
  eval_rewards, \* self.eval_rewards of the worker process
  toWorker,     \* envelopes agent_side -> browser_side, FIFO
  toAgent,      \* envelopes browser_side -> agent_side, FIFO
  agentSide,    \* self.agent_side of the supervisor: "undef", "open", "closed"
  browserSide,  \* self.browser_side of the supervisor
  shouldExit,   \* should_exit() in the supervisor process
  th,           \* per thread: the frame of the supervisor code it runs
  nextId,       \* uuids generated so far
  attempt,      \* tenacity attempt number of init_browser
  closed,       \* a close() has returned
  failsLeft,    \* environment constructions that may still fail
  opsLeft       \* operations that may still be invoked

\* th[t].pc       position in the supervisor code
\* th[t].top      the public operation in progress
\* th[t].ret      where a nested check_alive / close returns to
\* th[t].rid      unique_request_id of the step in progress
\* th[t].act      action_str of the step in progress
\* th[t].tmo      timeout of the step in progress
\* th[t].elapsed  time.time() - start_time of the step, in poll intervals
\* th[t].late     poll intervals spent in the wait in progress since
\*                should_exit() holds
\* th[t].ca       value returned by the nested check_alive
\* th[t].live     the worker process was alive when check_alive sent its probe
\* th[t].how      how far the close in progress had to escalate
\* th[t].sent     ids of the envelopes the operation in progress has sent
\* th[t].skip     envelopes the step in progress has received and dropped
\* th[t].res      outcome of the last finished operation

chanVars == <<toWorker, toAgent, agentSide, browserSide>>
workVars == <<proc, wpc, wreq, envCloses, eval_rewards>>
miscVars == <<avail, eval_env, shouldExit, nextId, attempt, closed, failsLeft, opsLeft>>
vars == <<chanVars, workVars, th, miscVars>>

Frame(p) ==
  [pc |-> p, top |-> "none", ret |-> "idle", rid |-> "none", act |-> "none",
   tmo |-> 0, elapsed |-> 0, late |-> 0,
   ca |-> FALSE, live |-> FALSE, how |-> "none", sent |-> << >>,
   skip |-> 0, res |-> NoRes]

\* line 51: self.eval_mode = bool(browsergym_eval_env) and BROWSERGYM_AVAILABLE
eval_mode == eval_env /\ avail

InitEval(ops, fails, envs) ==
  /\ avail \in BOOLEAN
  /\ eval_env \in envs
  /\ proc = "undef"
  /\ wpc = "none"
  /\ wreq = NoReq
  /\ envCloses = 0
  /\ eval_rewards = << >>
  /\ toWorker = << >>
  /\ toAgent = << >>
  /\ agentSide = "undef"
  /\ browserSide = "undef"
  /\ shouldExit = FALSE
  /\ th = [t \in Threads |-> Frame(IF t = "main" THEN "new" ELSE "idle")]
  /\ nextId = 0
  /\ attempt = 0
  /\ closed = FALSE
  /\ failsLeft = fails
  /\ opsLeft = ops

\* a supervisor constructed without an evaluation environment
InitWith(ops, fails) == InitEval(ops, fails, {FALSE})

Init == InitWith(MaxOps, MaxBootFail)

\* ------------------------------------------------------------- helpers
\* thread t moves on to position l
Goto(t, l) == th' = [th EXCEPT ![t].pc = l]

\* the operation of thread t ends, by a return or by an exception that
\* leaves the public method; an exception in __init__ leaves no object
Finish(t, r) ==
  th' = [th EXCEPT ![t] =
           [Frame(IF th[t].top = "init" /\ r.kind # "ok" THEN "failed" ELSE "idle")
              EXCEPT !.res = [op |-> r.op, kind |-> r.kind, id |-> r.id,
                              pl |-> r.pl, skip |-> th[t].skip]]]

Raise(t, k) == Finish(t, Res(th[t].top, k, th[t].rid, "none"))

\* the object exists: __init__ has returned
Constructed == th["main"].pc \notin {"new", "failed"} /\ th["main"].top # "init"

\* the worker process ends, after n calls of env.close(); what it was
\* writing stays incomplete and what it held in memory is gone
Exit(n) ==
  /\ proc' = "dead"
  /\ wpc' = "exited"
  /\ wreq' = NoReq
  /\ envCloses' = envCloses + n
  /\ eval_rewards' = << >>

Die == Exit(0)

\* ------------------------------------------------------------ __init__
\* BrowserEnv.__init__: without browsergym neither the pipe ends nor the
\* process attribute are created
Construct(t) ==
  /\ th[t].pc = "new"
  /\ IF avail
       THEN /\ agentSide' = "open"
            /\ browserSide' = "open"
            /\ attempt' = 1
            /\ th' = [th EXCEPT ![t].pc = "ib_spawn", ![t].top = "init"]
       ELSE /\ Goto(t, "idle")
            /\ UNCHANGED <<agentSide, browserSide, attempt>>
  /\ UNCHANGED <<toWorker, toAgent, workVars>>
  /\ UNCHANGED <<avail, eval_env, shouldExit, nextId, closed, failsLeft, opsLeft>>

\* init_browser, lines 83-88: Process(target=self.browser_process).start().
\* The 'spawn' start method pickles self with both pipe ends; pickling a
\* closed Connection raises OSError, which is logged and raised again
IbSpawn(t) ==
  /\ th[t].pc = "ib_spawn"
  /\ IF agentSide = "closed" \/ browserSide = "closed"
       THEN /\ proc' = "unstarted"
            /\ Raise(t, "OSError")
            /\ UNCHANGED <<wpc, wreq, envCloses, eval_rewards>>
       ELSE /\ proc' = "alive"
            /\ wpc' = "boot"
            /\ wreq' = NoReq
            /\ envCloses' = 0
            /\ eval_rewards' = << >>
            /\ th' = [th EXCEPT ![t].pc = "ca_send", ![t].ret = "ib_checked",
                                ![t].sent = << >>]
  /\ UNCHANGED <<chanVars, miscVars>>

\* init_browser, lines 90-92: if not self.check_alive(timeout=200):
\* self.close()
IbChecked(t) ==
  /\ th[t].pc = "ib_checked"
  /\ IF th[t].ca
       THEN Finish(t, Res("init", "ok", "none", "none"))
       ELSE th' = [th EXCEPT ![t].pc = "cl_check", ![t].ret = "ib_raise"]
  /\ UNCHANGED <<chanVars, workVars, miscVars>>

\* stop_if_should_exit(): stop retrying once should_exit() holds
stop_if_should_exit == shouldExit

\* line 92 under the decorator of lines 76-80: BrowserInitException is
\* retried until stop_after_attempt(5) | stop_if_should_exit() holds; then
\* tenacity raises RetryError (reraise is not set)
IbRaise(t) ==
  /\ th[t].pc = "ib_raise"
  /\ IF attempt >= MaxAttempts \/ stop_if_should_exit
       THEN /\ Raise(t, "RetryError")
            /\ UNCHANGED attempt
       ELSE /\ attempt' = attempt + 1
            /\ Goto(t, "ib_spawn")
  /\ UNCHANGED <<chanVars, workVars>>
  /\ UNCHANGED <<avail, eval_env, shouldExit, nextId, closed, failsLeft, opsLeft>>

\* ---------------------------------------------------------- check_alive
CaReturn(t, b) ==
  IF th[t].ret = "idle"
    THEN Finish(t, Res("check_alive", IF b THEN "true" ELSE "false", "none", "none"))
    ELSE th' = [th EXCEPT ![t].pc = th[t].ret, ![t].ca = b, ![t].late = 0]

CallCheckAlive(t) ==
  /\ th[t].pc = "idle" /\ Constructed /\ opsLeft > 0
  /\ opsLeft' = opsLeft - 1
  /\ th' = [th EXCEPT ![t].pc = "ca_send", ![t].top = "check_alive"]
  /\ UNCHANGED <<chanVars, workVars>>
  /\ UNCHANGED <<avail, eval_env, shouldExit, nextId, attempt, closed, failsLeft>>

\* line 235: self.agent_side.send(('IS_ALIVE', None))
CaSend(t) ==
  /\ th[t].pc = "ca_send"
  /\ CASE agentSide = "undef" -> Raise(t, "AttributeError") /\ UNCHANGED toWorker
       [] agentSide = "closed" -> Raise(t, "OSError") /\ UNCHANGED toWorker
       [] OTHER ->
            /\ toWorker' = Append(toWorker, Envelope("IS_ALIVE", "None"))
            /\ th' = [th EXCEPT ![t].pc = "ca_poll", ![t].sent = Append(@, "IS_ALIVE"),
                                ![t].live = (proc = "alive")]
  /\ UNCHANGED <<toAgent, agentSide, browserSide, workVars, miscVars>>

\* line 236: self.agent_side.poll(timeout=timeout) finds something to read
CaPoll(t) ==
  /\ th[t].pc = "ca_poll"
  /\ IF agentSide = "closed"
       THEN Raise(t, "OSError")
       ELSE toAgent # << >> /\ Goto(t, "ca_recv")
  /\ UNCHANGED <<chanVars, workVars, miscVars>>

\* line 236: the poll times out with nothing to read; line 241
CaPollTimeout(t) ==
  /\ th[t].pc = "ca_poll"
  /\ agentSide = "open"
  /\ toAgent = << >>
  /\ CaReturn(t, FALSE)
  /\ UNCHANGED <<chanVars, workVars, miscVars>>

\* lines 237-241: recv, then the id is compared with 'ALIVE'
CaRecv(t) ==
  /\ th[t].pc = "ca_recv"
  /\ IF agentSide = "closed"
       THEN Raise(t, "OSError") /\ UNCHANGED toAgent
       ELSE /\ toAgent # << >>
            /\ Head(toAgent).done
            /\ toAgent' = Tail(toAgent)
            /\ CaReturn(t, Head(toAgent).id = "ALIVE")
  /\ UNCHANGED <<toWorker, agentSide, browserSide, workVars, miscVars>>

\* line 236: one call poll(timeout=timeout) waits for the whole timeout;
\* should_exit() is not looked at. A poll interval goes by with nothing to
\* read, after should_exit() has become true
CaPollWait(t) ==
  /\ th[t].pc = "ca_poll"
  /\ agentSide = "open"
  /\ toAgent = << >>
  /\ shouldExit
  /\ th[t].late < MaxLate
  /\ th[t].late < (IF th[t].ret = "idle" THEN PingIntervals ELSE ProbeIntervals)
  /\ th' = [th EXCEPT ![t].late = @ + 1]
  /\ UNCHANGED <<chanVars, workVars, miscVars>>

\* ---------------------------------------------------------------- close
ClReturn(t, h) ==
  /\ closed' = TRUE
  /\ IF th[t].top = "close"
       THEN Finish(t, Res("close", "ok", "none", h))
       ELSE th' = [th EXCEPT ![t].pc = th[t].ret, ![t].how = "none"]

CallClose(t) ==
  /\ th[t].pc = "idle" /\ Constructed /\ opsLeft > 0
  /\ opsLeft' = opsLeft - 1
  /\ th' = [th EXCEPT ![t].pc = "cl_check", ![t].top = "close"]
  /\ UNCHANGED <<chanVars, workVars>>
  /\ UNCHANGED <<avail, eval_env, shouldExit, nextId, attempt, closed, failsLeft>>

\* lines 244-245: if not self.process.is_alive(): return
ClCheck(t) ==
  /\ th[t].pc = "cl_check"
  /\ CASE proc = "undef" -> Raise(t, "AttributeError") /\ UNCHANGED closed
       [] proc = "alive" -> Goto(t, "cl_send") /\ UNCHANGED closed
       [] OTHER -> ClReturn(t, "not_running")
  /\ UNCHANGED <<chanVars, workVars>>
  /\ UNCHANGED <<avail, eval_env, shouldExit, nextId, attempt, failsLeft, opsLeft>>

\* line 247: self.agent_side.send(('SHUTDOWN', None)); an exception goes to
\* the handler of lines 260-261, past the rest of the try block
ClSend(t) ==
  /\ th[t].pc = "cl_send"
  /\ IF agentSide = "closed"
       THEN ClReturn(t, "error") /\ UNCHANGED toWorker
       ELSE /\ toWorker' = Append(toWorker, Envelope("SHUTDOWN", "None"))
            /\ th' = [th EXCEPT ![t].pc = "cl_join1", ![t].sent = Append(@, "SHUTDOWN")]
            /\ UNCHANGED closed
  /\ UNCHANGED <<toAgent, agentSide, browserSide, workVars>>
  /\ UNCHANGED <<avail, eval_env, shouldExit, nextId, attempt, failsLeft, opsLeft>>

\* lines 248-249: join(5), then is_alive(): the join returns when the
\* process has gone, or after 5 s with the process still there
ClJoin1(t) ==
  /\ th[t].pc = "cl_join1"
  /\ IF proc = "alive"
       THEN th' = [th EXCEPT ![t].pc = "cl_term", ![t].late = 0]
       ELSE th' = [th EXCEPT ![t].pc = "cl_closeA", ![t].how = "graceful",
                             ![t].late = 0]
  /\ UNCHANGED <<chanVars, workVars, miscVars>>

\* lines 248 and 254: process.join(5) waits for the process for up to 5 s;
\* should_exit() is not looked at. A poll interval goes by with the process
\* still alive, after should_exit() has become true
ClJoinWait(t) ==
  /\ th[t].pc \in {"cl_join1", "cl_join2"}
  /\ proc = "alive"
  /\ shouldExit
  /\ th[t].late < MaxLate
  /\ th[t].late < JoinIntervals
  /\ th' = [th EXCEPT ![t].late = @ + 1]
  /\ UNCHANGED <<chanVars, workVars, miscVars>>

\* line 253: self.process.terminate(): SIGTERM ends the worker, unless the
\* worker does not act on it before the next join gives up
ClTerm(t) ==
  /\ th[t].pc = "cl_term"
  /\ \/ proc = "alive" /\ Die
     \/ UNCHANGED workVars
  /\ Goto(t, "cl_join2")
  /\ UNCHANGED <<chanVars, miscVars>>

\* lines 254-255: join(5), then is_alive()
ClJoin2(t) ==
  /\ th[t].pc = "cl_join2"
  /\ IF proc = "alive"
       THEN th' = [th EXCEPT ![t].pc = "cl_kill", ![t].late = 0]
       ELSE th' = [th EXCEPT ![t].pc = "cl_closeA", ![t].how = "terminated",
                             ![t].late = 0]
  /\ UNCHANGED <<chanVars, workVars, miscVars>>

\* a close that gives up after terminate() without the kill
ClKillSkipped(t) ==
  /\ th[t].pc = "cl_kill"
  /\ th' = [th EXCEPT ![t].pc = "cl_closeA", ![t].how = "killed"]
  /\ UNCHANGED <<chanVars, workVars, miscVars>>

\* lines 256-257: self.process.kill(); self.process.join(5)
ClKill(t) ==
  /\ th[t].pc = "cl_kill"
  /\ IF proc = "alive" THEN Die ELSE UNCHANGED workVars
  /\ th' = [th EXCEPT ![t].pc = "cl_closeA", ![t].how = "killed"]
  /\ UNCHANGED <<chanVars, miscVars>>

\* line 258: self.agent_side.close()
ClCloseA(t) ==
  /\ th[t].pc = "cl_closeA"
  /\ agentSide' = "closed"
  /\ Goto(t, "cl_closeB")
  /\ UNCHANGED <<toWorker, toAgent, browserSide, workVars, miscVars>>

\* line 259: self.browser_side.close(); close returns
ClCloseB(t) ==
  /\ th[t].pc = "cl_closeB"
  /\ browserSide' = "closed"
  /\ ClReturn(t, th[t].how)
  /\ UNCHANGED <<toWorker, toAgent, agentSide, workVars>>
  /\ UNCHANGED <<avail, eval_env, shouldExit, nextId, attempt, failsLeft, opsLeft>>

\* ----------------------------------------------------------------- step
\* a step that takes whatever envelope comes first
IdMatchesAny(response_id, unique_request_id) == TRUE

\* line 231: response_id == unique_request_id
IdMatches(response_id, unique_request_id) == response_id = unique_request_id

\* line 221: step(action_str, timeout) is called
CallStep(t, a, to) ==
  /\ th[t].pc = "idle" /\ Constructed /\ opsLeft > 0
  /\ opsLeft' = opsLeft - 1
  /\ th' = [th EXCEPT ![t].pc = "st_send", ![t].top = "step",
                      ![t].act = a, ![t].tmo = to]
  /\ UNCHANGED <<chanVars, workVars>>
  /\ UNCHANGED <<avail, eval_env, shouldExit, nextId, attempt, closed, failsLeft>>

\* a step that sends its request twice
StSendTwice(t) ==
  /\ th[t].pc = "st_send"
  /\ nextId' = nextId + 1
  /\ CASE agentSide = "undef" -> Raise(t, "AttributeError") /\ UNCHANGED toWorker
       [] agentSide = "closed" -> Raise(t, "OSError") /\ UNCHANGED toWorker
       [] OTHER ->
            /\ toWorker' = toWorker \o <<Envelope(Uuid(nextId + 1), th[t].act),
                                          Envelope(Uuid(nextId + 1), th[t].act)>>
            /\ th' = [th EXCEPT ![t].pc = "st_check", ![t].rid = Uuid(nextId + 1),
                                ![t].elapsed = 0, ![t].sent = Append(@, Uuid(nextId + 1))]
  /\ UNCHANGED <<toAgent, agentSide, browserSide, workVars>>
  /\ UNCHANGED <<avail, eval_env, shouldExit, attempt, closed, failsLeft, opsLeft>>

\* lines 223-225: a fresh uuid, the request is sent, the clock starts
StSend(t) ==
  /\ th[t].pc = "st_send"
  /\ nextId' = nextId + 1
  /\ CASE agentSide = "undef" -> Raise(t, "AttributeError") /\ UNCHANGED toWorker
       [] agentSide = "closed" -> Raise(t, "OSError") /\ UNCHANGED toWorker
       [] OTHER ->
            /\ toWorker' = Append(toWorker, Envelope(Uuid(nextId + 1), th[t].act))
            /\ th' = [th EXCEPT ![t].pc = "st_check", ![t].rid = Uuid(nextId + 1),
                                ![t].elapsed = 0, ![t].sent = Append(@, Uuid(nextId + 1))]
  /\ UNCHANGED <<toAgent, agentSide, browserSide, workVars>>
  /\ UNCHANGED <<avail, eval_env, shouldExit, attempt, closed, failsLeft, opsLeft>>

\* a step that tells the worker to shut down when it gives up
StCheckCancel(t) ==
  /\ th[t].pc = "st_check"
  /\ IF shouldExit \/ th[t].elapsed > th[t].tmo
       THEN /\ Raise(t, "TimeoutError")
            /\ toWorker' = Append(toWorker, Envelope("SHUTDOWN", "None"))
       ELSE /\ Goto(t, "st_poll")
            /\ UNCHANGED toWorker
  /\ UNCHANGED <<toAgent, agentSide, browserSide, workVars, miscVars>>

\* lines 227-228: if should_exit() or time.time() - start_time > timeout
StCheck(t) ==
  /\ th[t].pc = "st_check"
  /\ IF shouldExit \/ th[t].elapsed > th[t].tmo
       THEN Raise(t, "TimeoutError")
       ELSE Goto(t, "st_poll")
  /\ UNCHANGED <<chanVars, workVars, miscVars>>

\* line 229: self.agent_side.poll(timeout=0.01): true as soon as there is
\* something to read, false after one poll interval with nothing
StPoll(t) ==
  /\ th[t].pc = "st_poll"
  /\ CASE agentSide = "closed" -> Raise(t, "OSError")
       [] agentSide # "closed" /\ toAgent # << >> -> Goto(t, "st_recv")
       [] OTHER -> th' = [th EXCEPT ![t].pc = "st_check", ![t].elapsed = @ + 1,
                                    ![t].late = IF shouldExit THEN @ + 1 ELSE @]
  /\ UNCHANGED <<chanVars, workVars, miscVars>>

\* lines 230-232: recv, return dict(obs) if the ids match, else loop
StRecv(t) ==
  /\ th[t].pc = "st_recv"
  /\ IF agentSide = "closed"
       THEN Raise(t, "OSError") /\ UNCHANGED toAgent
       ELSE /\ toAgent # << >>
            /\ Head(toAgent).done
            /\ toAgent' = Tail(toAgent)
            /\ IF IdMatches(Head(toAgent).id, th[t].rid)
                 THEN Finish(t, Res("step", "ok", Head(toAgent).id, Head(toAgent).pl))
                 ELSE th' = [th EXCEPT ![t].pc = "st_check", ![t].skip = @ + 1]
  /\ UNCHANGED <<toWorker, agentSide, browserSide, workVars, miscVars>>

\* line 230: recv() has no timeout. It blocks while the envelope at the
\* head is incomplete and its writer is gone (or while another thread has
\* taken the envelope that poll() saw), and the clock of the step runs on
StRecvBlocked(t) ==
  /\ th[t].pc = "st_recv"
  /\ agentSide = "open"
  /\ \/ toAgent = << >>
     \/ toAgent # << >> /\ ~Head(toAgent).done /\ wpc # "sending"
  /\ th[t].elapsed < th[t].tmo + 2
  /\ th' = [th EXCEPT ![t].elapsed = @ + 1,
                      ![t].late = IF shouldExit /\ @ < MaxLate THEN @ + 1 ELSE @]
  /\ UNCHANGED <<chanVars, workVars, miscVars>>

\* --------------------------------------------------------------- worker
\* the observation that env.step(action) yields, after the payload
\* transformations of lines 197-211
EnvStep(a) == IF a = "noop" THEN "obs_noop" ELSE "obs_other"

\* the reward that env.step(action) yields
Reward(a) == 0

\* json.dumps of a list of rewards
Num(r) == IF r = 0 THEN "0.0" ELSE "1.0"

RECURSIVE Join(_)
Join(l) ==
  IF l = << >> THEN ""
  ELSE IF Len(l) = 1 THEN Num(l[1])
  ELSE Num(l[1]) \o ", " \o Join(Tail(l))

json_dumps(l) == "[" \o Join(l) \o "]"

\* lines 95-153: the environment is constructed and reset
WorkerBootOk ==
  /\ proc = "alive" /\ wpc = "boot"
  /\ wpc' = "loop"
  /\ eval_rewards' = << >>
  /\ UNCHANGED <<proc, wreq, envCloses, chanVars, th, miscVars>>

\* a worker that reports the failed construction before it exits
WorkerBootFailAnswers ==
  /\ proc = "alive" /\ wpc = "boot"
  /\ failsLeft > 0
  /\ failsLeft' = failsLeft - 1
  /\ Die
  /\ toAgent' = Append(toAgent, Envelope("FAILED", "None"))
  /\ UNCHANGED <<toWorker, agentSide, browserSide, th>>
  /\ UNCHANGED <<avail, eval_env, shouldExit, nextId, attempt, closed, opsLeft>>

\* lines 95-97, 118-120, 131-133 (and an exception of gym.make or
\* env.reset that nothing catches): browser_process ends before its loop
\* and the process exits
WorkerBootFail ==
  /\ proc = "alive" /\ wpc = "boot"
  /\ failsLeft > 0
  /\ failsLeft' = failsLeft - 1
  /\ Die
  /\ UNCHANGED <<chanVars, th>>
  /\ UNCHANGED <<avail, eval_env, shouldExit, nextId, attempt, closed, opsLeft>>

\* line 155: should_continue() is false at the head of the loop (the
\* shutdown listener of the worker process has seen a signal): the loop
\* ends and the process exits
WorkerLoopExit ==
  /\ Constructed
  /\ proc = "alive" /\ wpc = "loop"
  /\ Die
  /\ UNCHANGED <<chanVars, th, miscVars>>

\* a worker that acknowledges SHUTDOWN before it exits
WorkerShutdownReplies ==
  /\ Exit(1)
  /\ toAgent' = Append(toAgent, Envelope("SHUTDOWN", "None"))

\* lines 161-164: env.close(); return
WorkerShutdown ==
  /\ Exit(1)
  /\ UNCHANGED toAgent

\* a worker that knows only the first of the evaluation actions
ReservedActionsGoalOnly == {BROWSER_EVAL_GET_GOAL_ACTION}

\* lines 170 and 180: the actions answered from the fields of the worker
ReservedActions == {BROWSER_EVAL_GET_GOAL_ACTION, BROWSER_EVAL_GET_REWARDS_ACTION}

\* lines 173-177 and 185: the payload of the answer to a reserved action
EvalReply(action) ==
  IF action = BROWSER_EVAL_GET_GOAL_ACTION
    THEN "goal"
    ELSE json_dumps(eval_rewards)

\* lines 157-190: a poll cycle that finds an envelope
WorkerRecv ==
  /\ proc = "alive" /\ wpc = "loop"
  /\ toWorker # << >>
  /\ toWorker' = Tail(toWorker)
  /\ LET unique_request_id == Head(toWorker).id
         action == Head(toWorker).pl
     IN CASE unique_request_id = "SHUTDOWN" ->
               WorkerShutdown
          [] unique_request_id = "IS_ALIVE" ->
               /\ toAgent' = Append(toAgent, Envelope("ALIVE", "None"))
               /\ UNCHANGED workVars
          [] unique_request_id \notin {"SHUTDOWN", "IS_ALIVE"}
               /\ action \in ReservedActions ->
               /\ toAgent' = Append(toAgent, Envelope(unique_request_id, EvalReply(action)))
               /\ UNCHANGED workVars
          [] OTHER ->
               /\ wpc' = "stepping"
               /\ wreq' = [id |-> unique_request_id, pl |-> action]
               /\ UNCHANGED <<proc, envCloses, eval_rewards, toAgent>>
  /\ UNCHANGED <<agentSide, browserSide, th, miscVars>>

\* a worker that steps the environment twice for one request
WorkerStepTwice ==
  /\ proc = "alive" /\ wpc = "stepping"
  /\ eval_rewards' = IF eval_mode
                       THEN eval_rewards \o <<Reward(wreq.pl), Reward(wreq.pl)>>
                       ELSE eval_rewards
  /\ toAgent' = Append(toAgent, [id |-> wreq.id, pl |-> EnvStep(wreq.pl), done |-> FALSE])
  /\ wpc' = "sending"
  /\ UNCHANGED <<proc, wreq, envCloses, toWorker, agentSide, browserSide, th, miscVars>>

\* lines 191-212: env.step(action) returns, in evaluation mode its reward
\* is added to the history, and the observation starts to go out under the
\* id of the request
WorkerStep ==
  /\ proc = "alive" /\ wpc = "stepping"
  /\ eval_rewards' = IF eval_mode
                       THEN Append(eval_rewards, Reward(wreq.pl))
                       ELSE eval_rewards
  /\ toAgent' = Append(toAgent, [id |-> wreq.id, pl |-> EnvStep(wreq.pl), done |-> FALSE])
  /\ wpc' = "sending"
  /\ UNCHANGED <<proc, wreq, envCloses, toWorker, agentSide, browserSide, th, miscVars>>

\* line 212: browser_side.send returns, the envelope is complete
WorkerSendEnd ==
  /\ proc = "alive" /\ wpc = "sending"
  /\ toAgent' = [toAgent EXCEPT ![Len(toAgent)].done = TRUE]
  /\ wpc' = "loop"
  /\ wreq' = NoReq
  /\ UNCHANGED <<proc, envCloses, eval_rewards, toWorker, agentSide, browserSide, th, miscVars>>

\* a worker whose interrupt handler closes the environment and goes back
\* to the loop
WorkerInterruptGoesOn ==
  /\ Constructed
  /\ proc = "alive" /\ wpc \in {"loop", "stepping", "sending"}
  /\ envCloses < 2
  /\ envCloses' = envCloses + 1
  /\ wpc' = "loop"
  /\ wreq' = NoReq
  /\ UNCHANGED <<proc, eval_rewards, chanVars, th, miscVars>>

\* lines 213-219: KeyboardInterrupt anywhere in the loop body (poll, recv,
\* env.step, send): env.close() is tried, an exception it raises is
\* swallowed (lines 217-218), and browser_process returns. An exception of
\* env.step other than KeyboardInterrupt is not caught and ends the process
\* as well.
WorkerInterrupt ==
  /\ Constructed
  /\ proc = "alive" /\ wpc \in {"loop", "stepping", "sending"}
  /\ Exit(1)
  /\ UNCHANGED <<chanVars, th, miscVars>>

\* ---------------------------------------------------------- environment
\* the worker process is killed from outside
ExternalKill ==
  /\ Constructed
  /\ proc = "alive"
  /\ Die
  /\ UNCHANGED <<chanVars, th, miscVars>>

\* the shutdown listener of the supervisor process has seen a signal
SignalSupervisor ==
  /\ ~shouldExit
  /\ th["main"].pc # "new"
  /\ shouldExit' = TRUE
  /\ UNCHANGED <<chanVars, workVars, th>>
  /\ UNCHANGED <<avail, eval_env, nextId, attempt, closed, failsLeft, opsLeft>>

\* ----------------------------------------------------------------- spec
Supervisor(t) ==
  \/ Construct(t) \/ IbSpawn(t) \/ IbChecked(t) \/ IbRaise(t)
  \/ CallCheckAlive(t) \/ CaSend(t) \/ CaPoll(t) \/ CaPollTimeout(t) \/ CaRecv(t)
  \/ CallClose(t) \/ ClCheck(t) \/ ClSend(t) \/ ClJoin1(t) \/ ClTerm(t)
  \/ ClJoin2(t) \/ ClKill(t) \/ ClCloseA(t) \/ ClCloseB(t)
  \/ \E a \in ActionStrs, to \in Timeouts : CallStep(t, a, to)
  \/ StSend(t) \/ StCheck(t) \/ StPoll(t) \/ StRecv(t) \/ StRecvBlocked(t)

Worker ==
  \/ WorkerBootOk \/ WorkerBootFail \/ WorkerLoopExit \/ WorkerRecv
  \/ WorkerStep \/ WorkerSendEnd \/ WorkerInterrupt

Environment == ExternalKill \/ SignalSupervisor

\* the controller uses the supervisor from one thread
Next == Supervisor("main") \/ Worker \/ Environment
Spec == Init /\ [][Next]_vars

\* a second thread of the controller calls close while the first one uses
\* the supervisor; every environment construction succeeds
Closer(t) ==
  \/ CallClose(t) \/ ClCheck(t) \/ ClSend(t) \/ ClJoin1(t) \/ ClTerm(t)
  \/ ClJoin2(t) \/ ClKill(t) \/ ClCloseA(t) \/ ClCloseB(t)

NextConc ==
  \/ Supervisor("main") \/ Closer("aux")
  \/ WorkerBootOk \/ WorkerLoopExit \/ WorkerRecv \/ WorkerStep
  \/ WorkerSendEnd \/ WorkerInterrupt \/ ExternalKill
SpecConc == InitWith(MaxConcOps, 0) /\ [][NextConc]_vars

\* a start in which every environment construction may fail
SpecStart == InitWith(MaxStartOps, MaxAttempts) /\ [][Next]_vars

\* two threads of the controller call step on the same supervisor: step
\* takes no lock and nothing else in the class serialises its callers
Stepper(t) ==
  \/ \E a \in ActionStrs, to \in Timeouts : CallStep(t, a, to)
  \/ StSend(t) \/ StCheck(t) \/ StPoll(t) \/ StRecv(t) \/ StRecvBlocked(t)

NextTwo ==
  \/ Supervisor("main") \/ Stepper("aux")
  \/ WorkerBootOk \/ WorkerLoopExit \/ WorkerRecv \/ WorkerStep
  \/ WorkerSendEnd \/ WorkerInterrupt \/ ExternalKill
SpecTwo == InitWith(MaxTwoOps, 0) /\ [][NextTwo]_vars

\* the time a thread spends in the waits of check_alive and close is
\* counted from the moment should_exit() holds
Waiting(t) == CaPollWait(t) \/ ClJoinWait(t)

NextSignal ==
  \/ Supervisor("main") \/ Waiting("main")
  \/ WorkerBootOk \/ WorkerLoopExit \/ WorkerRecv \/ WorkerStep
  \/ WorkerSendEnd \/ WorkerInterrupt \/ ExternalKill \/ SignalSupervisor
SpecSignal == InitWith(MaxWaitOps, 0) /\ [][NextSignal]_vars

\* the controller also asks for the reward history, of a supervisor that
\* was constructed with or without an evaluation environment
EvalCall(t) ==
  \E to \in Timeouts : CallStep(t, BROWSER_EVAL_GET_REWARDS_ACTION, to)

NextEval ==
  \/ Supervisor("main") \/ EvalCall("main")
  \/ WorkerBootOk \/ WorkerLoopExit \/ WorkerRecv \/ WorkerStep
  \/ WorkerSendEnd \/ WorkerInterrupt \/ ExternalKill
SpecEval == InitEval(MaxEvalOps, 0, BOOLEAN) /\ [][NextEval]_vars

\* ======================================================== properties
StepWaitPcs == {"st_check", "st_poll", "st_recv"}
CloseLadderPcs == {"cl_send", "cl_join1", "cl_term", "cl_join2", "cl_kill",
                   "cl_closeA", "cl_closeB"}
ClosePcs == CloseLadderPcs \cup {"cl_check"}

\* C1: a step that returns successfully returns the payload of the envelope
\* whose id is the correlation id this step generated and sent, and that
\* payload is the worker's answer to the action of this step; the reply of
\* an earlier, abandoned call is never returned by a later call.
C1_StepReturnsOwnReply ==
  [][\A t \in Threads :
       (th[t].top = "step" /\ th'[t].top = "none" /\ th'[t].res.kind = "ok")
       => /\ th[t].rid # "none"
          /\ th'[t].res.id = th[t].rid
          /\ toAgent # << >>
          /\ Head(toAgent).id = th[t].rid
          /\ th'[t].res.pl = Head(toAgent).pl
          /\ th'[t].res.pl = IF th[t].act = BROWSER_EVAL_GET_GOAL_ACTION
                               THEN "goal" ELSE EnvStep(th[t].act)]_vars

\* the second of two steps has returned its own reply after it received and
\* dropped the late reply of the first one, which had timed out
C1_Witness ==
  /\ th["main"].res.op = "step" /\ th["main"].res.kind = "ok"
  /\ th["main"].res.id = "u2" /\ th["main"].res.skip > 0
  /\ nextId = 2 /\ opsLeft = MaxOps - 2 /\ failsLeft = MaxBootFail

\* C2: when the liveness probe fails on every attempt (and no shutdown is
\* signalled), init_browser makes exactly 5 attempts, then fails with
\* BrowserInitException, and no worker process is alive after the failure.
C2_StartRetriesFiveTimes ==
  (th["main"].pc = "failed" /\ ~shouldExit)
  => /\ attempt = MaxAttempts
     /\ th["main"].res.kind = "BrowserInitException"
     /\ proc # "alive"

\* C3: a step whose matching reply does not arrive is over no later than
\* its timeout plus one poll interval after it was issued, whatever the
\* worker does; it never waits longer.
C3_StepEndsByDeadline ==
  \A t \in Threads :
    (th[t].top = "step" /\ th[t].pc \in StepWaitPcs)
    => th[t].elapsed <= th[t].tmo + 1

\* C4: check_alive returns a boolean: true only if the worker process was
\* running when it was probed, and false, as a value and not as an error,
\* whenever a close has completed before.
C4_PingTrueIffAlive ==
  [][\A t \in Threads :
       (avail /\ th[t].top = "check_alive" /\ th'[t].top = "none")
       => /\ th'[t].res.kind \in {"true", "false"}
          /\ th'[t].res.kind = "true" => th[t].live
          /\ closed => th'[t].res.kind = "false"]_vars

\* C5: close on a supervisor whose worker is not running (after a completed
\* close, or never started) returns without an error, sends nothing and
\* changes neither the process nor the channel.
C5_CloseIdempotent ==
  [][\A t \in Threads :
       (th[t].top = "close" /\ th[t].pc = "cl_check" /\ proc # "alive"
          /\ th'[t] # th[t])
       => /\ th'[t].res.op = "close"
          /\ th'[t].res.kind = "ok"
          /\ UNCHANGED <<chanVars, workVars>>]_vars

\* C6: a close that found the worker process alive returns, by the end of
\* the ladder or through its exception handler, only when the process is no
\* longer alive.
C6_CloseLeavesNoProcess ==
  [][\A t \in Threads :
       (th[t].pc \in CloseLadderPcs /\ th'[t].pc \notin ClosePcs)
       => proc' # "alive"]_vars

\* one close had to go up to kill(), another one, called meanwhile, left
\* through the exception handler; the process is gone
C6_Witness ==
  /\ th["main"].res.op = "close" /\ th["aux"].res.op = "close"
  /\ {th["main"].res.pl, th["aux"].res.pl} = {"killed", "error"}
  /\ proc = "dead"

\* C7: when a close that found the worker process alive returns, both
\* channel ends are closed, however the shutdown went (graceful exit,
\* forced termination, or an error on the way).
C7_CloseClosesBothEnds ==
  [][\A t \in Threads :
       (th[t].pc \in CloseLadderPcs /\ th'[t].pc \notin ClosePcs)
       => agentSide' = "closed" /\ browserSide' = "closed"]_vars

\* C8: a step that ends with TimeoutError has sent the worker its request
\* and nothing else, and no action of a step changes the worker process:
\* the worker is neither told to stop nor terminated.
C8_TimeoutSendsNothingElse ==
  [][\A t \in Threads :
       /\ (th[t].top = "step" /\ th'[t].top = "none"
             /\ th'[t].res.kind = "TimeoutError")
          => /\ th[t].sent = <<th[t].rid>>
             /\ toWorker' = toWorker
       /\ (th[t].top = "step" /\ th[t].pc \in StepWaitPcs /\ th'[t] # th[t])
          => /\ toWorker' = toWorker
             /\ UNCHANGED workVars]_vars

\* a step has timed out while the worker is still busy with its action
C8_Witness ==
  /\ th["main"].res.op = "step" /\ th["main"].res.kind = "TimeoutError"
  /\ ~shouldExit
  /\ proc = "alive" /\ wpc = "stepping" /\ wreq.id = th["main"].res.id

\* C9: when the worker process has been killed while a step waits for its
\* reply, the step is over by its deadline (stated here with one poll
\* interval of tolerance); it does not hang.
C9_KilledWorkerTimesOut ==
  \A t \in Threads :
    (th[t].top = "step" /\ th[t].pc \in StepWaitPcs /\ proc = "dead"
       /\ envCloses = 0)
    => th[t].elapsed <= th[t].tmo + 1

\* C10: a step that is in flight while another thread calls close ends
\* with its payload or with TimeoutError, never with another error.
C10_StepUnderCloseEndsCleanly ==
  [][\A t \in Threads :
       (th[t].pc \in StepWaitPcs /\ th'[t].top = "none")
       => th'[t].res.kind \in {"ok", "TimeoutError"}]_vars

\* C11: the supervisor lets at most one step be outstanding: two threads
\* that call step are never both past their send and waiting for a reply,
\* and no step receives and drops the reply to the step of another thread.
C11_OneOutstandingStep ==
  ~(\A t \in Threads : th[t].top = "step" /\ th[t].pc \in StepWaitPcs)

\* C12: every wait of the supervisor (the reply wait of step and of
\* check_alive, the liveness probe of init_browser, the joins of close) is
\* over within one poll interval once should_exit() holds: no thread spends
\* more than one poll interval in a wait after the signal.
C12_SignalEndsEveryWait ==
  \A t \in Threads : th[t].late <= 1

\* C13: when init_browser is about to spawn the worker process of an
\* attempt, the process of the attempt before is no longer alive and both
\* channel ends are usable by the new process: a failed attempt is torn
\* down without leaving the next one a closed channel.
C13_AttemptStartsClean ==
  \A t \in Threads :
    th[t].pc = "ib_spawn"
    => /\ proc # "alive"
       /\ agentSide = "open"
       /\ browserSide = "open"

\* C14: both channel ends are open while the worker process is alive, and
\* whenever close returns with the process started and no longer alive,
\* also when the worker had gone before close was called, both channel ends
\* are closed.
C14_ChannelLivesWithProcess ==
  [][/\ proc' = "alive" => agentSide' = "open" /\ browserSide' = "open"
     /\ \A t \in Threads :
          (th[t].pc \in ClosePcs /\ th'[t].pc \notin ClosePcs /\ proc' = "dead")
          => agentSide' = "closed" /\ browserSide' = "closed"]_vars

\* the worker takes the envelope at the head of its queue
Receives == toWorker # << >> /\ toWorker' = Tail(toWorker)

\* C15: the worker that receives SHUTDOWN calls env.close() once and ends:
\* it sends no reply, and from then on the process that has ended receives
\* nothing of what is queued behind SHUTDOWN and sends nothing.
C15_ShutdownIsTerminal ==
  [][/\ (Receives /\ Head(toWorker).id = "SHUTDOWN")
        => /\ proc' = "dead" /\ wpc' = "exited"
           /\ envCloses' = envCloses + 1
           /\ toAgent' = toAgent
     /\ (wpc = "exited" /\ wpc' = "exited")
        => /\ ~Receives
           /\ Len(toAgent') <= Len(toAgent)
           /\ envCloses' = envCloses
     /\ wpc' = "exited" => envCloses' <= 1]_vars

\* the worker has received the SHUTDOWN of a close and has ended; the
\* request of a step that was sent after the SHUTDOWN stays in the queue
C15_Witness ==
  /\ th["aux"].pc = "cl_join1" /\ th["main"].pc \in StepWaitPcs
  /\ toWorker = <<Envelope(th["main"].rid, th["main"].act)>>
  /\ wpc = "exited" /\ envCloses = 1
  /\ toAgent = << >>

\* C16: the worker answers IS_ALIVE with ('ALIVE', None) and a request for
\* GET_EVAL_GOAL or GET_EVAL_REWARDS under the id of the request, with the
\* goal or with the serialized reward history; in the three cases it does
\* not go on to env.step and the reward history stays as it is.
C16_ControlPlaneSkipsEnv ==
  [][Receives =>
       LET unique_request_id == Head(toWorker).id
           action == Head(toWorker).pl
           Answered(e) == /\ toAgent' = Append(toAgent, e)
                          /\ wpc' = "loop"
                          /\ eval_rewards' = eval_rewards
                          /\ envCloses' = envCloses
       IN /\ unique_request_id = "IS_ALIVE"
               => Answered(Envelope("ALIVE", "None"))
          /\ (unique_request_id \notin {"SHUTDOWN", "IS_ALIVE"}
                /\ action = BROWSER_EVAL_GET_GOAL_ACTION)
               => Answered(Envelope(unique_request_id, "goal"))
          /\ (unique_request_id \notin {"SHUTDOWN", "IS_ALIVE"}
                /\ action = BROWSER_EVAL_GET_REWARDS_ACTION)
               => Answered(Envelope(unique_request_id, json_dumps(eval_rewards)))]_vars

\* in evaluation mode a step has added a reward to the history, and the
\* request for the history that follows has been answered with it, under
\* its own id, while the history is still the same
C16_Witness ==
  /\ eval_mode /\ wpc = "loop"
  /\ eval_rewards = <<Reward("noop")>>
  /\ th["main"].pc \in StepWaitPcs
  /\ th["main"].act = BROWSER_EVAL_GET_REWARDS_ACTION
  /\ toAgent = <<Envelope(th["main"].rid, "[0.0]")>>

\* position of a uuid in the order in which the uuids were generated
UuidIndex(i) == CHOOSE n \in 1..6 : Uuid(n) = i

\* the envelopes of a queue that carry the uuid of a step
IsUuid(i) == \E n \in 1..6 : Uuid(n) = i

\* C17: for a request that is neither a control tag nor a reserved action
\* the worker calls env.step once (in evaluation mode the history grows by
\* the one reward) and sends one reply, under the id of the request; it
\* takes an envelope only when it is not busy with another one, so that the
\* replies leave in the order in which the requests were received.
C17_OneStepOneReplyInOrder ==
  [][/\ (Receives /\ Head(toWorker).id \notin {"SHUTDOWN", "IS_ALIVE"}
           /\ Head(toWorker).pl \notin ReservedActions)
        => /\ wpc = "loop" /\ wpc' = "stepping"
           /\ wreq' = [id |-> Head(toWorker).id, pl |-> Head(toWorker).pl]
           /\ toAgent' = toAgent
           /\ eval_rewards' = eval_rewards
     /\ (wpc = "stepping" /\ wpc' \notin {"stepping", "exited"})
        => /\ wpc' = "sending" /\ wreq' = wreq
           /\ Len(toAgent') = Len(toAgent) + 1
           /\ toAgent'[Len(toAgent')].id = wreq.id
           /\ toAgent'[Len(toAgent')].pl = EnvStep(wreq.pl)
           /\ eval_rewards' = IF eval_mode
                                THEN Append(eval_rewards, Reward(wreq.pl))
                                ELSE eval_rewards
     /\ (wpc = "sending" /\ wpc' \notin {"sending", "exited"})
        => /\ wpc' = "loop"
           /\ Len(toAgent') = Len(toAgent)
           /\ toAgent'[Len(toAgent')] = Envelope(wreq.id, EnvStep(wreq.pl))
           /\ eval_rewards' = eval_rewards
     /\ Receives => wpc = "loop" /\ Len(toWorker') = Len(toWorker) - 1
     /\ \A p, q \in DOMAIN toAgent' :
          (p < q /\ IsUuid(toAgent'[p].id) /\ IsUuid(toAgent'[q].id))
          => UuidIndex(toAgent'[p].id) < UuidIndex(toAgent'[q].id)]_vars

\* in evaluation mode the worker has answered two steps, one after the
\* other; the supervisor has given up both, the two replies are in the
\* queue in the order of the requests and the history holds two rewards
C17_Witness ==
  /\ eval_mode /\ wpc = "loop"
  /\ toAgent = <<Envelope("u1", "obs_noop"), Envelope("u2", "obs_noop")>>
  /\ eval_rewards = <<Reward("noop"), Reward("noop")>>

\* C18: a worker whose environment construction fails ends without having
\* received an envelope or sent a reply; the liveness probe of that attempt
\* then yields false, the close of line 91 finds nothing to shut down, and
\* init_browser is called again (as long as fewer than 5 attempts were made
\* and should_exit() does not hold).
C18_FailedConstructionIsRetried ==
  [][/\ (wpc = "boot" /\ wpc' = "exited")
        => /\ toWorker' = toWorker /\ toAgent' = toAgent
           /\ envCloses' = envCloses
     /\ \A t \in Threads :
          /\ (th[t].pc = "ib_checked" /\ wpc = "exited") => ~th[t].ca
          /\ (th[t].pc = "cl_check" /\ th[t].ret = "ib_raise" /\ wpc = "exited"
                /\ th'[t] # th[t])
             => th'[t].pc = "ib_raise" /\ UNCHANGED <<chanVars, workVars>>
          /\ (th[t].pc = "ib_raise" /\ th'[t] # th[t]
                /\ attempt < MaxAttempts /\ ~shouldExit)
             => th'[t].pc = "ib_spawn" /\ attempt' = attempt + 1]_vars

\* the environment construction of the first attempt has failed, the probe
\* of that attempt is still in the queue unread, and the process of the
\* second attempt has been spawned
C18_Witness ==
  /\ attempt = 2 /\ th["main"].pc = "ca_send"
  /\ proc = "alive" /\ wpc = "boot"
  /\ failsLeft = MaxAttempts - 1
  /\ toWorker = <<Envelope("IS_ALIVE", "None")>> /\ toAgent = << >>

\* C19: a worker that is interrupted in its loop, while it polls or
\* receives, steps the environment or sends a reply, makes its one call of
\* env.close() and ends in the same move: it neither takes another envelope
\* nor sends or completes a reply, and it does not stay alive.
C19_InterruptEndsWorker ==
  [][(proc = "alive" /\ wpc \in {"loop", "stepping", "sending"}
        /\ envCloses' # envCloses)
     => /\ envCloses' = envCloses + 1
        /\ proc' = "dead" /\ wpc' = "exited"
        /\ toAgent' = toAgent
        /\ (wpc # "loop" => toWorker' = toWorker)]_vars

\* the worker was interrupted while it was sending the reply of a step: it
\* has closed the environment and ended, the reply stays incomplete
C19_Witness ==
  /\ wpc = "exited" /\ proc = "dead" /\ envCloses = 1
  /\ th["main"].pc \in StepWaitPcs
  /\ toWorker = << >>
  /\ toAgent = <<[id |-> th["main"].rid, pl |-> "obs_noop", done |-> FALSE]>>

\* C20: when the controller calls the supervisor from one thread, a step
\* that returns its payload leaves nothing to read on agent_side: whatever
\* the worker sent in reply to earlier requests came before the matching
\* reply and was received and dropped by this step.
C20_StepLeavesNothingPending ==
  [][\A t \in Threads :
       (th[t].top = "step" /\ th'[t].top = "none" /\ th'[t].res.kind = "ok")
       => toAgent' = << >>]_vars

\* the second of two steps has returned after it had dropped the late
\* reply of the first one, and nothing is left to read
C20_Witness ==
  /\ th["main"].res.op = "step" /\ th["main"].res.kind = "ok"
  /\ th["main"].res.id = "u2" /\ th["main"].res.skip = 1
  /\ th["main"].pc = "idle" /\ toAgent = << >> /\ proc = "alive"
====
